---- MODULE Spec2Model ----
(***************************************************************************)
(* Model of the Binance wallet analyzer (analyze_wallet_v2.py, app.py):    *)
(* the ledger reconstruction of WalletAnalyzer (step_b_process_flows,      *)
(* _process_group), the fiscal totals of step_d_report and                 *)
(* collect_fiscal_data, and the PriceCache / BinancePriceClient pair used  *)
(* by worker threads.                                                      *)
(*                                                                         *)
(* Quantities (Decimal) are integers in the smallest unit of the ledger;   *)
(* prices (float) are integers in the smallest price unit. Timestamps are  *)
(* epoch milliseconds.                                                     *)
(***************************************************************************)
EXTENDS Integers, Sequences, FiniteSets, TLC

VARIABLES
    df,                 \* WalletAnalyzer.df after step_a_load_and_clean
    pc,                 \* position of the main thread in WalletAnalyzer.run
    dates,              \* group keys step_b_process_flows has still to process
    group,              \* rows of the group being processed
    ri,                 \* index in group of the next row to process
    has_fiat_deduction, \* flag computed at the start of _process_group
    holdings,           \* WalletAnalyzer.holdings
    net_invested_eur,   \* WalletAnalyzer.net_invested_eur
    daily_snapshots,    \* WalletAnalyzer.daily_snapshots
    taxable_events,     \* rows that took the taxable branch of _process_group
    price_requests,     \* calls _process_group made to get_price_in_eur
    days,               \* days step_c_visualize has still to value
    report,             \* what step_d_report / collect_fiscal_data computed
    first_run,          \* what an earlier analyzer ended with on the same file
    current_analysis,   \* app.py: the job record get_status returns
    apc,                \* app.py: position of the thread of each upload
    status_by,          \* the upload whose thread last wrote the status
    cache,              \* PriceCache.cache
    unsaved_changes,    \* PriceCache.unsaved_changes
    store,              \* content of the file CACHE_FILE
    lock,               \* owner of PriceCache.lock
    wpc,                \* position of each worker thread in get_price_in_eur
    wcoin,              \* coin argument of each worker's call
    wts,                \* timestamp argument of each worker's call
    wcached,            \* what get_price returned to each worker
    wprice,             \* what _fetch_price_api returned to each worker
    wret,               \* how each worker's last call of get_price_in_eur ended
    wcalls,             \* calls of get_price_in_eur each worker has started
    saves,              \* calls of PriceCache.save the main thread has made
    attempt,            \* per thread, the attempt simple_backoff is at
    pair,               \* per thread, the index in pairs_to_try
    sleeps,             \* per thread, the delays slept in the current fetch
    wresp,              \* per thread, the last request of the fetch and its answer
    batch,              \* coins argument of the get_batch_prices call
    batch_ts,           \* timestamp argument of the get_batch_prices call
    futures,            \* per submitted call, its state and its outcome
    results,            \* the results dict of get_batch_prices
    wtask,              \* per thread, the future it is running (0: none)
    last_set            \* per key, the price last stored under it

vars == <<df, pc, dates, group, ri, has_fiat_deduction, holdings,
          net_invested_eur, daily_snapshots, taxable_events, price_requests,
          days, report, first_run, current_analysis, apc, status_by, cache,
          unsaved_changes, store, lock, wpc, wcoin, wts,
          wcached, wprice, wret, wcalls, saves, attempt, pair, sleeps,
          wresp, batch, batch_ts, futures, results, wtask, last_set>>

ledgerVars == <<df, pc, dates, group, ri, has_fiat_deduction, holdings,
                net_invested_eur, daily_snapshots, taxable_events,
                price_requests, days, report, first_run>>

appVars == <<current_analysis, apc, status_by>>

retryVars == <<attempt, pair, sleeps, wresp>>

batchVars == <<batch, batch_ts, futures, results, wtask>>

workerVars == <<lock, wpc, wcoin, wts, wcached, wprice, wret, wcalls, saves,
                attempt, pair, sleeps, wresp, batch, batch_ts, futures, results,
                wtask, last_set>>

-----------------------------------------------------------------------------
(* Bounds of the model *)

MaxRows == 2        \* rows of the transaction stream
MaxQty == 1         \* |Change| of a row
MaxTick == 2        \* timestamps are the half minutes 0..MaxTick
MaxCalls == 2       \* calls of get_price_in_eur per worker thread
MaxSaves == 1       \* calls of PriceCache.save by the main thread
MaxFetchBatch == 2  \* coins of a get_batch_prices call run request by request
MaxBatch == 3       \* coins of a get_batch_prices call run by named threads
MaxPoolCoins == 11  \* coins of a get_batch_prices call on the whole pool
MaxUploads == 2     \* files posted to /upload
MaxWrites == 53     \* calls of get_price_in_eur by the thread filling the cache
TicksPerYear == 2   \* half minutes in one (model) calendar year

(* Program constants *)

MINUTE_MS == 60000
DAY_MS == 86400000
FLUSH_THRESHOLD == 50

(* Optional[float]: None is the empty sequence, a price p is <<p>> *)
None == <<>>
Some(p) == <<p>>

-----------------------------------------------------------------------------
(* Mappings and constants of analyze_wallet_v2.py *)

OPERATION_MAPPING ==
    [l \in {"Buy Crypto With Fiat", "Sell Crypto For Fiat", "Transaction Buy",
            "Transaction Sold", "Transaction Revenue", "Transaction Spend",
            "Transaction Fee", "Cashback Voucher", "Deposit", "Withdraw",
            "Distribution", "Staking Rewards", "Binance Convert", "Crypto Box",
            "Simple Earn Flexible Interest", "Fiat Withdraw"} |->
        CASE l = "Buy Crypto With Fiat" -> "buy_fiat"
          [] l = "Sell Crypto For Fiat" -> "sell_fiat"
          [] l = "Transaction Buy" -> "buy"
          [] l = "Transaction Sold" -> "sell"
          [] l = "Transaction Revenue" -> "revenue"
          [] l = "Transaction Spend" -> "spend"
          [] l = "Transaction Fee" -> "fee"
          [] l = "Cashback Voucher" -> "cashback"
          [] l = "Deposit" -> "deposit"
          [] l = "Withdraw" -> "withdraw"
          [] l = "Distribution" -> "distribution"
          [] l = "Staking Rewards" -> "staking"
          [] l = "Binance Convert" -> "convert"
          [] l = "Crypto Box" -> "airdrop"
          [] l = "Simple Earn Flexible Interest" -> "staking"
          [] l = "Fiat Withdraw" -> "withdraw_fiat"]

IGNORED_OPERATIONS ==
    {"Simple Earn Flexible Subscription", "Simple Earn Flexible Redemption",
     "Simple Earn Locked Subscription", "Simple Earn Locked Redemption",
     "Flexible Loan - Collateral Transfer"}

FIAT_CURRENCIES == {"EUR", "USD", "GBP", "CHF", "JPY", "CAD", "AUD", "NZD", "SGD"}

\* variant: the stablecoins count as fiat
InFiatOrStable(coin) == coin \in FIAT_CURRENCIES \cup {"USDT", "USDC", "BUSD"}

\* coin in FIAT_CURRENCIES
InFiat(coin) == coin \in FIAT_CURRENCIES

\* df['Operation'].map(OPERATION_MAPPING).fillna('unknown')
MappedOp(operation) ==
    IF operation \in DOMAIN OPERATION_MAPPING
    THEN OPERATION_MAPPING[operation]
    ELSE "unknown"

-----------------------------------------------------------------------------
(* The input: rows of the CSV file *)

Coins == {"EUR", "USDT", "BTC"}

Labels == {"Deposit", "Fiat Withdraw", "Sell Crypto For Fiat",
           "Buy Crypto With Fiat", "Binance Convert", "Launchpool",
           "Simple Earn Flexible Subscription"}

Times == {(k * MINUTE_MS) \div 2 : k \in 0..MaxTick}

Changes == (0 - MaxQty)..MaxQty

RawRows == [UTC_Time : Times, Operation : Labels, Coin : Coins, Change : Changes]

\* calendar year of a timestamp (a model year lasts TicksPerYear half minutes)
YearOf(t) == t \div ((TicksPerYear * MINUTE_MS) \div 2)

IsSorted(s) == \A i \in 1..(Len(s) - 1) : s[i].UTC_Time <= s[i + 1].UTC_Time

\* the CSV files: sort_values('UTC_Time') leaves the rows in ascending order
RawStreams ==
    {s \in UNION {[1..n -> RawRows] : n \in 0..MaxRows} : IsSorted(s)}

\* step_a_load_and_clean: Mapped_Op column, ignored operations dropped
step_a_load_and_clean(raw) ==
    LET kept == SelectSeq(raw, LAMBDA r : r.Operation \notin IGNORED_OPERATIONS)
    IN  [i \in 1..Len(kept) |->
            [UTC_Time |-> kept[i].UTC_Time, Operation |-> kept[i].Operation,
             Coin |-> kept[i].Coin, Change |-> kept[i].Change,
             Mapped_Op |-> MappedOp(kept[i].Operation)]]

RECURSIVE UniqueTimes(_)
\* sorted(grouped.groups.keys()) of a stream sorted by UTC_Time
UniqueTimes(s) ==
    IF s = <<>> THEN <<>>
    ELSE LET rest == UniqueTimes(Tail(s))
         IN  IF rest # <<>> /\ Head(rest) = Head(s).UTC_Time
             THEN rest
             ELSE <<Head(s).UTC_Time>> \o rest

\* grouped.get_group(date)
GetGroup(s, date) == SelectSeq(s, LAMBDA r : r.UTC_Time = date)

-----------------------------------------------------------------------------
(* PriceCache *)

EmptyCache == [k \in {} |-> 0]

\* the file CACHE_FILE: absent, unreadable as JSON, or a saved mapping
StoreMissing == [state |-> "missing", data |-> EmptyCache]
StoreCorrupt == [state |-> "corrupt", data |-> EmptyCache]
StoreOf(c) == [state |-> "ok", data |-> c]

\* variant: the file is not read
_load_cache_empty(s) == EmptyCache

\* PriceCache._load_cache
_load_cache(s) == IF s.state = "ok" THEN s.data ELSE EmptyCache

\* a key that forgets the minute
CacheKeyBySymbol(symbol, date_str) == <<symbol, 0>>

\* f"{symbol}_{date_str}": date_str holds digits only, so the string
\* determines the pair and the pair is the key
CacheKey(symbol, date_str) == <<symbol, date_str>>

\* self.cache.get(key)
CacheLookup(c, key) == IF key \in DOMAIN c THEN Some(c[key]) ELSE None

\* self.cache[key] = price
CacheStore(c, key, price) ==
    [k \in (DOMAIN c) \cup {key} |-> IF k = key THEN price ELSE c[k]]

\* PriceCache._save_cache: the file is rewritten and the counter reset, or
\* open() raises (file untouched), or json.dump raises on a truncated file
_save_cache(c, u, s) ==
    {[cache |-> c, unsaved |-> 0, store |-> StoreOf(c), raised |-> FALSE],
     [cache |-> c, unsaved |-> u, store |-> s, raised |-> TRUE],
     [cache |-> c, unsaved |-> u, store |-> StoreCorrupt, raised |-> TRUE]}

\* variant: the counter is never looked at
set_price_no_flush(c, u, s, key, price) ==
    {[cache |-> CacheStore(c, key, price), unsaved |-> u + 1, store |-> s,
      raised |-> FALSE]}

\* PriceCache.set_price, the body under the lock
set_price(c, u, s, key, price) ==
    LET c2 == CacheStore(c, key, price)
        u2 == u + 1
    IN  IF u2 > FLUSH_THRESHOLD
        THEN _save_cache(c2, u2, s)
        ELSE {[cache |-> c2, unsaved |-> u2, store |-> s, raised |-> FALSE]}

-----------------------------------------------------------------------------
(* BinancePriceClient *)

\* variant: the timestamp is not floored
TsExact(ts_ms) == ts_ms

\* (ts_ms // 60000) * 60000
TsMinute(ts_ms) == (ts_ms \div MINUTE_MS) * MINUTE_MS

\* close of the minute bar the klines endpoint serves for a pair
KlineClose(coin, quote, ts) ==
    LET unit == CASE coin = "BTC" -> 3 [] coin = "USDT" -> 1 [] OTHER -> 2
        per == IF quote = "EUR" THEN 100 ELSE 110
    IN  unit * per + ts \div MINUTE_MS

\* close of the EURUSDT bar, in thousandths
EurUsdtClose == 1100

\* _get_usdt_eur_rate, in thousandths: 1.0 / close of EURUSDT, or 0.92
FALLBACK_RATE == 920
UsdtEurRates == {1000000 \div EurUsdtClose, FALLBACK_RATE}

\* variant: the close of the bridge pair is taken for a price in EUR
BridgePriceNoRate(close, rate) == close

\* return price * usdt_eur
BridgePrice(close, rate) == (close * rate) \div 1000

\* what _fetch_price_api (with simple_backoff) can return for a pair of
\* arguments: the direct close, the bridge close times a rate, or None
FetchResults(coin, ts) ==
    {None, Some(KlineClose(coin, "EUR", ts))}
    \cup {Some(BridgePrice(KlineClose(coin, "USDT", ts), r)) : r \in UsdtEurRates}

\* what one requests.get of the klines endpoint can give: status 200 with a
\* bar, status 200 with an empty list, status 429, another status, an
\* exception of the transport (timeout, connection), a body that is not
\* JSON, a JSON body of another shape
Responses == {"data", "empty", "limit", "status", "transport", "not_json",
              "bad_shape"}

\* the outcomes of a response that leave the body of _fetch_price_api:
\* "retry" is a requests.exceptions.RequestException, which simple_backoff
\* catches; "escape" is any other exception. resp.json() raises a
\* RequestException or a ValueError depending on the version of requests
OutcomesOf(resp) ==
    CASE resp = "data" -> {"price"}
      [] resp \in {"empty", "status"} -> {"next_pair"}
      [] resp \in {"limit", "transport"} -> {"retry"}
      [] resp = "not_json" -> {"retry", "escape"}
      [] resp = "bad_shape" -> {"escape"}

\* _fetch_price_api can end with an exception simple_backoff does not catch:
\* float(data[0][4]) on a body of another shape, resp.json() on a body that is
\* not JSON
FetchCanRaise == \E resp \in Responses : "escape" \in OutcomesOf(resp)

\* BinancePriceClient.get_price_in_eur run without interruption: every way the
\* call can end, with the cache state it leaves
get_price_in_eur(c, u, s, coin, timestamp) ==
    LET key == CacheKey(coin, TsMinute(timestamp))
        cached == CacheLookup(c, key)
        same(ret) == [ret |-> ret, cache |-> c, unsaved |-> u, store |-> s,
                      raised |-> FALSE]
    IN  IF coin = "EUR" THEN {same(1)}
        ELSE IF cached # None THEN {same(cached[1])}
        ELSE UNION {
            IF price = None THEN {same(0)}
            ELSE {[ret |-> price[1], cache |-> o.cache, unsaved |-> o.unsaved,
                   store |-> o.store, raised |-> o.raised] :
                      o \in set_price(c, u, s, key, price[1])}
            : price \in FetchResults(coin, TsMinute(timestamp))}
          \cup (IF FetchCanRaise
                THEN {[ret |-> 0, cache |-> c, unsaved |-> u, store |-> s,
                       raised |-> TRUE]}
                ELSE {})

-----------------------------------------------------------------------------
(* Threads on one BinancePriceClient: the workers of a ThreadPoolExecutor    *)
(* call get_price_in_eur, the main thread calls PriceCache.save              *)

Workers == {"w1", "w2"}
NoOwner == "none"
MainThread == "main"
Threads == Workers \cup {MainThread}

\* the coins the workers ask for
FetchCoins == {"EUR", "BTC"}

\* no request made yet in the call under way
NoRequest == [url |-> "none", answer |-> "none"]

NotReturned == [kind |-> "none", value |-> 0]
Returned(p) == [kind |-> "value", value |-> p]
Raised == [kind |-> "raised", value |-> 0]

\* no thread is in a call, each has made n calls so far
IdleAfter(n) ==
    /\ lock = NoOwner
    /\ wpc = [w \in Threads |-> "idle"]
    /\ wcoin = [w \in Threads |-> "EUR"]
    /\ wts = [w \in Threads |-> 0]
    /\ wcached = [w \in Threads |-> None]
    /\ wprice = [w \in Threads |-> None]
    /\ wret = [w \in Threads |-> NotReturned]
    /\ wcalls = [w \in Threads |-> n]
    /\ saves = 0
    /\ attempt = [w \in Threads |-> 0]
    /\ pair = [w \in Threads |-> 1]
    /\ sleeps = [w \in Threads |-> <<>>]
    /\ wresp = [w \in Threads |-> NoRequest]
    /\ wtask = [w \in Threads |-> 0]

WorkersIdle == IdleAfter(0)

WorkerKey(w) == CacheKey(wcoin[w], TsMinute(wts[w]))

\* executor.submit(self.get_price_in_eur, coin, timestamp): the call starts;
\* for EUR it returns 1.0 at once
StartCall(w) ==
    /\ wpc[w] = "idle"
    /\ wcalls[w] < MaxCalls
    /\ \E coin \in FetchCoins, t \in Times :
          /\ wcoin' = [wcoin EXCEPT ![w] = coin]
          /\ wts' = [wts EXCEPT ![w] = t]
          /\ IF coin = "EUR"
             THEN /\ wret' = [wret EXCEPT ![w] = Returned(1)]
                  /\ wpc' = wpc
             ELSE /\ wret' = [wret EXCEPT ![w] = NotReturned]
                  /\ wpc' = [wpc EXCEPT ![w] = "get_wait"]
    /\ wcalls' = [wcalls EXCEPT ![w] = @ + 1]
    /\ wcached' = [wcached EXCEPT ![w] = None]
    /\ wprice' = [wprice EXCEPT ![w] = None]
    /\ attempt' = [attempt EXCEPT ![w] = 0]
    /\ pair' = [pair EXCEPT ![w] = 1]
    /\ sleeps' = [sleeps EXCEPT ![w] = <<>>]
    /\ wresp' = [wresp EXCEPT ![w] = NoRequest]
    /\ UNCHANGED <<lock, saves, last_set, cache, unsaved_changes, store>>
    /\ UNCHANGED ledgerVars
    /\ UNCHANGED appVars
    /\ UNCHANGED batchVars

\* no call of get_batch_prices is under way
NoBatch ==
    /\ batch = <<>>
    /\ batch_ts = 0
    /\ futures = <<>>
    /\ results = [c \in {} |-> 0]

\* variant: the lock is not waited for
LockIgnored(l) == TRUE

\* threading.Lock: "with self.lock:" is entered when no thread holds the lock
LockFree(l) == l = NoOwner

\* "with self.lock:" entered, in get_price or in set_price
Acquire(w) ==
    /\ wpc[w] \in {"get_wait", "set_wait"}
    /\ LockFree(lock)
    /\ lock' = w
    /\ wpc' = [wpc EXCEPT ![w] = IF wpc[w] = "get_wait" THEN "get_locked"
                                                        ELSE "set_locked"]
    /\ UNCHANGED <<wcoin, wts, wcached, wprice, wret, wcalls, saves, last_set,
                   cache, unsaved_changes, store>>
    /\ UNCHANGED retryVars
    /\ UNCHANGED ledgerVars
    /\ UNCHANGED appVars
    /\ UNCHANGED batchVars

\* variant: get_price returns without releasing the lock
LockKeptAfterGet(w) == w

\* the end of the block "with self.lock:" of get_price
LockAfterGet(w) == NoOwner

\* PriceCache.get_price under the lock, then "if cached is not None: return"
GetPrice(w) ==
    /\ wpc[w] = "get_locked"
    /\ lock = w
    /\ LET got == CacheLookup(cache, WorkerKey(w))
       IN  /\ wcached' = [wcached EXCEPT ![w] = got]
           /\ IF got # None
              THEN /\ wret' = [wret EXCEPT ![w] = Returned(got[1])]
                   /\ wpc' = [wpc EXCEPT ![w] = "idle"]
              ELSE /\ wret' = wret
                   /\ wpc' = [wpc EXCEPT ![w] = "fetch"]
    /\ lock' = LockAfterGet(w)
    /\ UNCHANGED <<wcoin, wts, wprice, wcalls, saves, last_set, cache,
                   unsaved_changes, store>>
    /\ UNCHANGED retryVars
    /\ UNCHANGED ledgerVars
    /\ UNCHANGED appVars
    /\ UNCHANGED batchVars

\* price = self._fetch_price_api(coin, ts_minute), then "return 0.0" on None
FetchPrice(w) ==
    /\ wpc[w] = "fetch"
    /\ \/ \E price \in FetchResults(wcoin[w], TsMinute(wts[w])) :
             /\ wprice' = [wprice EXCEPT ![w] = price]
             /\ IF price = None
                THEN /\ wret' = [wret EXCEPT ![w] = Returned(0)]
                     /\ wpc' = [wpc EXCEPT ![w] = "idle"]
                ELSE /\ wret' = wret
                     /\ wpc' = [wpc EXCEPT ![w] = "set_wait"]
       \/ /\ FetchCanRaise
          /\ wprice' = wprice
          /\ wret' = [wret EXCEPT ![w] = Raised]
          /\ wpc' = [wpc EXCEPT ![w] = "idle"]
    /\ UNCHANGED <<lock, wcoin, wts, wcached, wcalls, saves, last_set, cache,
                   unsaved_changes, store>>
    /\ UNCHANGED retryVars
    /\ UNCHANGED ledgerVars
    /\ UNCHANGED appVars
    /\ UNCHANGED batchVars

\* variant: the lock stays taken when the flush raises
LockKeptOnRaise(w, raised) == IF raised THEN w ELSE NoOwner

\* the end of the block "with self.lock:" of set_price, left by its last
\* statement or by the exception of _save_cache
LockAfterSet(w, raised) == NoOwner

\* PriceCache.set_price under the lock, then "return price"
SetPrice(w) ==
    /\ wpc[w] = "set_locked"
    /\ lock = w
    /\ \E o \in set_price(cache, unsaved_changes, store, WorkerKey(w),
                          wprice[w][1]) :
          /\ cache' = o.cache
          /\ unsaved_changes' = o.unsaved
          /\ store' = o.store
          /\ wret' = [wret EXCEPT ![w] = IF o.raised THEN Raised
                                         ELSE Returned(wprice[w][1])]
          /\ lock' = LockAfterSet(w, o.raised)
    /\ LET asked == <<wcoin[w], TsMinute(wts[w])>>
       IN  last_set' = [k \in (DOMAIN last_set) \cup {asked} |->
                            IF k = asked THEN wprice[w][1] ELSE last_set[k]]
    /\ wpc' = [wpc EXCEPT ![w] = "idle"]
    /\ UNCHANGED <<wcoin, wts, wcached, wprice, wcalls, saves>>
    /\ UNCHANGED retryVars
    /\ UNCHANGED ledgerVars
    /\ UNCHANGED appVars
    /\ UNCHANGED batchVars

\* PriceCache.save: "with self.lock:" entered by the main thread
SaveAcquire ==
    /\ pc = "idle"
    /\ saves < MaxSaves
    /\ LockFree(lock)
    /\ lock' = MainThread
    /\ pc' = "save_locked"
    /\ saves' = saves + 1
    /\ UNCHANGED <<df, dates, group, ri, has_fiat_deduction, holdings,
                   net_invested_eur, daily_snapshots, taxable_events,
                   price_requests, days, report>>
    /\ UNCHANGED <<wpc, wcoin, wts, wcached, wprice, wret, wcalls, last_set,
                   cache, unsaved_changes, store>>
    /\ UNCHANGED retryVars
    /\ UNCHANGED batchVars
    /\ UNCHANGED first_run
    /\ UNCHANGED appVars

\* PriceCache.save: _save_cache under the lock
Save ==
    /\ pc = "save_locked"
    /\ lock = MainThread
    /\ \E o \in _save_cache(cache, unsaved_changes, store) :
          /\ cache' = o.cache
          /\ unsaved_changes' = o.unsaved
          /\ store' = o.store
    /\ lock' = NoOwner
    /\ pc' = "idle"
    /\ UNCHANGED <<df, dates, group, ri, has_fiat_deduction, holdings,
                   net_invested_eur, daily_snapshots, taxable_events,
                   price_requests, days, report>>
    /\ UNCHANGED <<wpc, wcoin, wts, wcached, wprice, wret, wcalls, saves,
                   last_set>>
    /\ UNCHANGED retryVars
    /\ UNCHANGED batchVars
    /\ UNCHANGED first_run
    /\ UNCHANGED appVars

-----------------------------------------------------------------------------
(* BinancePriceClient.get_batch_prices: one submitted call per coin *)

MAX_WORKERS == 10

Pending == [state |-> "pending", result |-> NotReturned]
Running == [state |-> "running", result |-> NotReturned]
Done(out) == [state |-> "done", result |-> out]
Collected(out) == [state |-> "collected", result |-> out]

\* {executor.submit(self.get_price_in_eur, coin, timestamp): coin for coin in coins}
SubmitAll(coins) == [i \in 1..Len(coins) |-> Pending]

\* the executor hands out the queued calls in the order of submission
NextPending(fs) ==
    CHOOSE i \in 1..Len(fs) :
        /\ fs[i].state = "pending"
        /\ \A j \in 1..(i - 1) : fs[j].state # "pending"

InFlight(fs) == {i \in 1..Len(fs) : fs[i].state = "running"}

\* variant: a thread for every queued call
PoolUnbounded(n) == TRUE

\* variant: the pool never starts a queued call
PoolNeverFree(n) == FALSE

\* ThreadPoolExecutor(max_workers=MAX_WORKERS): a queued call starts when
\* fewer than max_workers threads are busy
PoolHasFreeWorker(n) == n < MAX_WORKERS

\* variant: every result is filed under the first coin
FutureToFirstCoin(coins, i) == coins[1]

\* coin = future_to_coin[future]
future_to_coin(coins, i) == coins[i]

\* results[coin] = future.result(), and 0.0 when the call raised
ResultOf(out) == IF out = Raised THEN 0 ELSE out.value

\* a pool thread takes the next queued call and enters get_price_in_eur
RunTask(w) ==
    /\ pc = "as_completed"
    /\ wpc[w] = "idle"
    /\ wtask[w] = 0
    /\ \E j \in 1..Len(futures) : futures[j].state = "pending"
    /\ PoolHasFreeWorker(Cardinality(InFlight(futures)))
    /\ LET i == NextPending(futures)
       IN  /\ futures' = [futures EXCEPT ![i] = Running]
           /\ wtask' = [wtask EXCEPT ![w] = i]
           /\ wcoin' = [wcoin EXCEPT ![w] = batch[i]]
           /\ wts' = [wts EXCEPT ![w] = batch_ts]
           /\ IF batch[i] = "EUR"
              THEN /\ wret' = [wret EXCEPT ![w] = Returned(1)]
                   /\ wpc' = wpc
              ELSE /\ wret' = [wret EXCEPT ![w] = NotReturned]
                   /\ wpc' = [wpc EXCEPT ![w] = "get_wait"]
    /\ wcalls' = [wcalls EXCEPT ![w] = @ + 1]
    /\ wcached' = [wcached EXCEPT ![w] = None]
    /\ wprice' = [wprice EXCEPT ![w] = None]
    /\ attempt' = [attempt EXCEPT ![w] = 0]
    /\ pair' = [pair EXCEPT ![w] = 1]
    /\ sleeps' = [sleeps EXCEPT ![w] = <<>>]
    /\ wresp' = [wresp EXCEPT ![w] = NoRequest]
    /\ UNCHANGED <<lock, saves, last_set, cache, unsaved_changes, store, batch,
                   batch_ts, results>>
    /\ UNCHANGED ledgerVars
    /\ UNCHANGED appVars

\* the call of a pool thread is over: its future holds the value or the
\* exception
FinishTask(w) ==
    /\ wpc[w] = "idle"
    /\ wtask[w] # 0
    /\ futures' = [futures EXCEPT ![wtask[w]] = Done(wret[w])]
    /\ wtask' = [wtask EXCEPT ![w] = 0]
    /\ wret' = [wret EXCEPT ![w] = NotReturned]
    /\ UNCHANGED <<lock, wpc, wcoin, wts, wcached, wprice, wcalls, saves,
                   last_set, cache, unsaved_changes, store, batch, batch_ts,
                   results>>
    /\ UNCHANGED retryVars
    /\ UNCHANGED ledgerVars
    /\ UNCHANGED appVars

\* one iteration of "for future in as_completed(future_to_coin)"
Collect ==
    /\ pc = "as_completed"
    /\ \E i \in 1..Len(futures) :
          /\ futures[i].state = "done"
          /\ LET coin == future_to_coin(batch, i)
                 value == ResultOf(futures[i].result)
             IN  results' = [c \in (DOMAIN results) \cup {coin} |->
                                IF c = coin THEN value ELSE results[c]]
          /\ futures' = [futures EXCEPT ![i] = Collected(futures[i].result)]
    /\ UNCHANGED <<lock, wpc, wcoin, wts, wcached, wprice, wret, wcalls, saves,
                   last_set, cache, unsaved_changes, store, batch, batch_ts,
                   wtask>>
    /\ UNCHANGED retryVars
    /\ UNCHANGED ledgerVars
    /\ UNCHANGED appVars

\* as_completed is exhausted, the executor shuts down: return results
ReturnBatch ==
    /\ pc = "as_completed"
    /\ \A i \in 1..Len(futures) : futures[i].state = "collected"
    /\ pc' = "returned"
    /\ UNCHANGED <<df, dates, group, ri, has_fiat_deduction, holdings,
                   net_invested_eur, daily_snapshots, taxable_events,
                   price_requests, days, report>>
    /\ UNCHANGED <<cache, unsaved_changes, store>>
    /\ UNCHANGED workerVars
    /\ UNCHANGED first_run
    /\ UNCHANGED appVars

\* a queued call starts on a free thread of the pool (the thread is not named)
StartTask ==
    /\ pc = "as_completed"
    /\ \E j \in 1..Len(futures) : futures[j].state = "pending"
    /\ PoolHasFreeWorker(Cardinality(InFlight(futures)))
    /\ futures' = [futures EXCEPT ![NextPending(futures)] = Running]
    /\ UNCHANGED <<lock, wpc, wcoin, wts, wcached, wprice, wret, wcalls, saves,
                   last_set, cache, unsaved_changes, store, batch, batch_ts,
                   results, wtask>>
    /\ UNCHANGED retryVars
    /\ UNCHANGED ledgerVars
    /\ UNCHANGED appVars

\* the call of an unnamed pool thread is over; the remote API is out of
\* reach, so that the call stored nothing in the cache
EndTask ==
    /\ pc = "as_completed"
    /\ \E i \in InFlight(futures) :
          \E o \in get_price_in_eur(cache, unsaved_changes, store, batch[i],
                                    batch_ts) :
             /\ o.cache = cache
             /\ ~o.raised
             /\ futures' = [futures EXCEPT ![i] = Done(Returned(o.ret))]
    /\ UNCHANGED <<lock, wpc, wcoin, wts, wcached, wprice, wret, wcalls, saves,
                   last_set, cache, unsaved_changes, store, batch, batch_ts,
                   results, wtask>>
    /\ UNCHANGED retryVars
    /\ UNCHANGED ledgerVars
    /\ UNCHANGED appVars

-----------------------------------------------------------------------------
(* _fetch_price_api under simple_backoff, request by request *)

MAX_ATTEMPTS == 3
BASE_DELAY_MS == 500

Pow2(n) == IF n = 0 THEN 1 ELSE IF n = 1 THEN 2 ELSE 4

\* variant: the same delay before every attempt
BackoffDelayFlat(n) == BASE_DELAY_MS

\* time.sleep(0.5 * (2 ** attempt)), in milliseconds
BackoffDelay(n) == BASE_DELAY_MS * Pow2(n)

\* the outcomes of a response in _get_usdt_eur_rate: the status is not
\* looked at, an empty body goes to "return 0.92", and the bare except
\* catches whatever requests.get, resp.json() and float(data[0][4]) raise
RateOutcomes(resp) ==
    CASE resp = "data" -> {"rate"}
      [] OTHER -> {"fallback"}

\* one requests.get of a pair inside _fetch_price_api and what follows it up
\* to the next request, the sleep or the return of get_price_in_eur
Request(w) ==
    /\ wpc[w] = "fetch"
    /\ \E resp \in Responses : \E out \in OutcomesOf(resp) :
          LET none == /\ wprice' = [wprice EXCEPT ![w] = None]
                      /\ wret' = [wret EXCEPT ![w] = Returned(0)]
                      /\ wpc' = [wpc EXCEPT ![w] = "idle"]
                      /\ pair' = pair
          IN  /\ wresp' = [wresp EXCEPT ![w] =
                              [url |-> IF pair[w] = 1 THEN "direct" ELSE "bridge",
                               answer |-> resp]]
              /\ CASE out = "price" ->
                     IF pair[w] = 1
                     THEN /\ wprice' = [wprice EXCEPT ![w] =
                                 Some(KlineClose(wcoin[w], "EUR", TsMinute(wts[w])))]
                          /\ wret' = wret
                          /\ wpc' = [wpc EXCEPT ![w] = "set_wait"]
                          /\ pair' = pair
                     ELSE /\ wpc' = [wpc EXCEPT ![w] = "rate"]
                          /\ UNCHANGED <<wprice, wret, pair>>
                [] out = "next_pair" ->
                     IF pair[w] = 1
                     THEN /\ pair' = [pair EXCEPT ![w] = 2]
                          /\ UNCHANGED <<wprice, wret, wpc>>
                     ELSE none
                [] out = "retry" ->
                     /\ wpc' = [wpc EXCEPT ![w] =
                                   IF attempt[w] = MAX_ATTEMPTS - 1
                                   THEN "exhausted" ELSE "sleep"]
                     /\ UNCHANGED <<wprice, wret, pair>>
                [] out = "escape" ->
                     /\ wret' = [wret EXCEPT ![w] = Raised]
                     /\ wpc' = [wpc EXCEPT ![w] = "idle"]
                     /\ UNCHANGED <<wprice, pair>>
    /\ UNCHANGED <<lock, wcoin, wts, wcached, wcalls, saves, attempt, sleeps,
                   last_set, cache, unsaved_changes, store>>
    /\ UNCHANGED ledgerVars
    /\ UNCHANGED appVars
    /\ UNCHANGED batchVars

\* usdt_eur = self._get_usdt_eur_rate(ts_ms), then "return price * usdt_eur"
RateRequest(w) ==
    /\ wpc[w] = "rate"
    /\ \E resp \in Responses : \E out \in RateOutcomes(resp) :
          LET bridge == KlineClose(wcoin[w], "USDT", TsMinute(wts[w]))
          IN  /\ wresp' = [wresp EXCEPT ![w] = [url |-> "rate", answer |-> resp]]
              /\ CASE out = "rate" ->
                       /\ wprice' = [wprice EXCEPT ![w] =
                              Some(BridgePrice(bridge, 1000000 \div EurUsdtClose))]
                       /\ wpc' = [wpc EXCEPT ![w] = "set_wait"]
                  [] out = "fallback" ->
                       /\ wprice' = [wprice EXCEPT ![w] =
                              Some(BridgePrice(bridge, FALLBACK_RATE))]
                       /\ wpc' = [wpc EXCEPT ![w] = "set_wait"]
    /\ UNCHANGED <<lock, wcoin, wts, wcached, wret, wcalls, saves, attempt,
                   pair, sleeps, last_set, cache, unsaved_changes, store>>
    /\ UNCHANGED ledgerVars
    /\ UNCHANGED appVars
    /\ UNCHANGED batchVars

\* the last attempt raised: simple_backoff returns None and get_price_in_eur
\* returns 0.0
GiveUp(w) ==
    /\ wpc[w] = "exhausted"
    /\ wprice' = [wprice EXCEPT ![w] = None]
    /\ wret' = [wret EXCEPT ![w] = Returned(0)]
    /\ wpc' = [wpc EXCEPT ![w] = "idle"]
    /\ UNCHANGED <<lock, wcoin, wts, wcached, wcalls, saves, last_set, cache,
                   unsaved_changes, store>>
    /\ UNCHANGED retryVars
    /\ UNCHANGED ledgerVars
    /\ UNCHANGED appVars
    /\ UNCHANGED batchVars

\* time.sleep in simple_backoff, then the next attempt starts
Sleep(w) ==
    /\ wpc[w] = "sleep"
    /\ sleeps' = [sleeps EXCEPT ![w] = Append(@, BackoffDelay(attempt[w]))]
    /\ attempt' = [attempt EXCEPT ![w] = @ + 1]
    /\ pair' = [pair EXCEPT ![w] = 1]
    /\ wresp' = wresp
    /\ wpc' = [wpc EXCEPT ![w] = "fetch"]
    /\ UNCHANGED <<lock, wcoin, wts, wcached, wprice, wret, wcalls, saves,
                   last_set, cache, unsaved_changes, store>>
    /\ UNCHANGED ledgerVars
    /\ UNCHANGED appVars
    /\ UNCHANGED batchVars

-----------------------------------------------------------------------------
(* WalletAnalyzer: reconstruction of the flows *)

\* any(row['Coin'] in FIAT_CURRENCIES and row['Change'] < 0 ...)
HasFiatDeduction(g) ==
    \E i \in 1..Len(g) : InFiat(g[i].Coin) /\ g[i].Change < 0

\* variant: the zero entry is kept
UpdateHoldingsKeepZero(h, coin, change) ==
    LET old == IF coin \in DOMAIN h THEN h[coin] ELSE 0
    IN  [c \in (DOMAIN h) \cup {coin} |-> IF c = coin THEN old + change ELSE h[c]]

\* variant: a balance is not allowed below zero
UpdateHoldingsClamped(h, coin, change) ==
    LET old == IF coin \in DOMAIN h THEN h[coin] ELSE 0
        new == IF old + change < 0 THEN 0 ELSE old + change
    IN  IF new = 0
        THEN [c \in (DOMAIN h) \ {coin} |-> h[c]]
        ELSE [c \in (DOMAIN h) \cup {coin} |-> IF c = coin THEN new ELSE h[c]]

\* self.holdings[coin] += change on a defaultdict(Decimal), then the entry
\* is deleted when it equals zero
UpdateHoldings(h, coin, change) ==
    LET old == IF coin \in DOMAIN h THEN h[coin] ELSE 0
        new == old + change
    IN  IF new = 0
        THEN [c \in (DOMAIN h) \ {coin} |-> h[c]]
        ELSE [c \in (DOMAIN h) \cup {coin} |-> IF c = coin THEN new ELSE h[c]]

\* variant: the operation decides alone, whatever the coin
FiatBranchAnyCoin(coin, op) ==
    IF op = "deposit" THEN "deposit"
    ELSE IF op = "withdraw_fiat" THEN "withdraw_fiat"
    ELSE IF op = "sell_fiat" THEN "sell_fiat"
    ELSE "none"

\* the branch of "if coin in FIAT_CURRENCIES" a row takes
FiatBranch(coin, op) ==
    IF InFiat(coin)
    THEN IF op = "deposit" THEN "deposit"
         ELSE IF op = "withdraw_fiat" THEN "withdraw_fiat"
         ELSE IF op = "sell_fiat" THEN "sell_fiat"
         ELSE "none"
    ELSE "none"

\* what the fiat branch adds to net_invested_eur
FiatDelta(coin, op, change) ==
    LET b == FiatBranch(coin, op)
    IN  IF b = "deposit" THEN change
        ELSE IF b = "withdraw_fiat" THEN change
        ELSE IF b = "sell_fiat" THEN 0 - change
        ELSE 0

\* variant: the fiat deduction of the group is not looked at
IsCardBuyAlways(coin, op, deduction) ==
    op = "buy_fiat" /\ ~InFiat(coin)

\* op == 'buy_fiat' and not has_fiat_deduction, and coin not in FIAT_CURRENCIES
IsCardBuy(coin, op, deduction) ==
    op = "buy_fiat" /\ ~deduction /\ ~InFiat(coin)

\* variant: the net invested amount is left out of the snapshot
SnapshotWithoutNet(date, h, n) == [date |-> date, holdings |-> h, net_invested |-> 0]

\* {'date': date, 'holdings': self.holdings.copy(), 'net_invested': ...}
Snapshot(date, h, n) == [date |-> date, holdings |-> h, net_invested |-> n]

RECURSIVE GroupEffect(_, _, _, _, _)
\* the loop of _process_group over the rows of a group, with the price
\* get_price_in_eur returns for each coin at the timestamp of the group
GroupEffect(rows, h, n, deduction, prices) ==
    IF rows = <<>> THEN [holdings |-> h, net_invested |-> n]
    ELSE LET row == Head(rows)
             bought == IF IsCardBuy(row.Coin, row.Mapped_Op, deduction)
                       THEN row.Change * prices[row.Coin]
                       ELSE 0
         IN  GroupEffect(Tail(rows),
                         UpdateHoldings(h, row.Coin, row.Change),
                         n + FiatDelta(row.Coin, row.Mapped_Op, row.Change) + bought,
                         deduction, prices)

\* WalletAnalyzer._process_group as a function of the group
_process_group(rows, h, n, prices) ==
    GroupEffect(rows, h, n, HasFiatDeduction(rows), prices)

\* for idx, date in enumerate(dates, 1): group = grouped.get_group(date),
\* and the first statement of _process_group
BeginGroup ==
    /\ pc = "step_b"
    /\ dates # <<>>
    /\ group' = GetGroup(df, Head(dates))
    /\ has_fiat_deduction' = HasFiatDeduction(group')
    /\ ri' = 1
    /\ pc' = "row"
    /\ UNCHANGED <<df, dates, holdings, net_invested_eur, daily_snapshots,
                   taxable_events, price_requests, days, report, cache,
                   unsaved_changes, store>>
    /\ UNCHANGED workerVars
    /\ UNCHANGED first_run
    /\ UNCHANGED appVars

\* one iteration of "for _, row in group.iterrows()" in _process_group
ProcessRow ==
    /\ pc = "row"
    /\ LET row == group[ri]
           coin == row.Coin
           change == row.Change
           op == row.Mapped_Op
           date == Head(dates)
           net1 == net_invested_eur + FiatDelta(coin, op, change)
           next_pc == IF ri = Len(group) THEN "snapshot" ELSE "row"
       IN  /\ holdings' = UpdateHoldings(holdings, coin, change)
           /\ taxable_events' =
                 IF FiatBranch(coin, op) = "sell_fiat"
                 THEN Append(taxable_events, row)
                 ELSE taxable_events
           /\ IF IsCardBuy(coin, op, has_fiat_deduction)
              THEN \E o \in get_price_in_eur(cache, unsaved_changes, store,
                                              coin, date) :
                      /\ cache' = o.cache
                      /\ unsaved_changes' = o.unsaved
                      /\ store' = o.store
                      /\ price_requests' =
                            Append(price_requests,
                                   [coin |-> coin, timestamp |-> date,
                                    price |-> o.ret, raised |-> o.raised])
                      /\ IF o.raised
                         THEN /\ net_invested_eur' = net1
                              /\ pc' = "error"
                              /\ ri' = ri
                         ELSE /\ net_invested_eur' = net1 + change * o.ret
                              /\ pc' = next_pc
                              /\ ri' = ri + 1
              ELSE /\ net_invested_eur' = net1
                   /\ pc' = next_pc
                   /\ ri' = ri + 1
                   /\ UNCHANGED <<price_requests, cache, unsaved_changes, store>>
    /\ UNCHANGED <<df, dates, group, has_fiat_deduction, daily_snapshots, days,
                   report>>
    /\ UNCHANGED workerVars
    /\ UNCHANGED first_run
    /\ UNCHANGED appVars

\* self.daily_snapshots.append({...}) after _process_group returned
AppendSnapshot ==
    /\ pc = "snapshot"
    /\ daily_snapshots' =
          Append(daily_snapshots,
                 Snapshot(Head(dates), holdings, net_invested_eur))
    /\ dates' = Tail(dates)
    /\ pc' = "step_b"
    /\ UNCHANGED <<df, group, ri, has_fiat_deduction, holdings,
                   net_invested_eur, taxable_events, price_requests, days,
                   report, cache, unsaved_changes, store>>
    /\ UNCHANGED workerVars
    /\ UNCHANGED first_run
    /\ UNCHANGED appVars

\* self.price_cache.save() at the end of step_b_process_flows
SaveAfterFlows ==
    /\ pc = "step_b"
    /\ dates = <<>>
    /\ \E o \in _save_cache(cache, unsaved_changes, store) :
          /\ cache' = o.cache
          /\ unsaved_changes' = o.unsaved
          /\ store' = o.store
          /\ pc' = IF o.raised THEN "error" ELSE "step_c"
    /\ UNCHANGED <<df, dates, group, ri, has_fiat_deduction, holdings,
                   net_invested_eur, daily_snapshots, taxable_events,
                   price_requests, days, report>>
    /\ UNCHANGED workerVars
    /\ UNCHANGED first_run
    /\ UNCHANGED appVars

\* a row of _process_group that makes no call to the price client
PlainRow ==
    /\ pc = "row"
    /\ ~IsCardBuy(group[ri].Coin, group[ri].Mapped_Op, has_fiat_deduction)
    /\ ProcessRow

\* a card buy row up to the call self.price_client.get_price_in_eur(coin, date)
CallPrice ==
    /\ pc = "row"
    /\ IsCardBuy(group[ri].Coin, group[ri].Mapped_Op, has_fiat_deduction)
    /\ LET row == group[ri]
       IN  /\ holdings' = UpdateHoldings(holdings, row.Coin, row.Change)
           /\ net_invested_eur' =
                 net_invested_eur + FiatDelta(row.Coin, row.Mapped_Op, row.Change)
           /\ wcoin' = [wcoin EXCEPT ![MainThread] = row.Coin]
           /\ wts' = [wts EXCEPT ![MainThread] = Head(dates)]
    /\ wpc' = [wpc EXCEPT ![MainThread] = "get_wait"]
    /\ wret' = [wret EXCEPT ![MainThread] = NotReturned]
    /\ wcached' = [wcached EXCEPT ![MainThread] = None]
    /\ wprice' = [wprice EXCEPT ![MainThread] = None]
    /\ wcalls' = [wcalls EXCEPT ![MainThread] = @ + 1]
    /\ attempt' = [attempt EXCEPT ![MainThread] = 0]
    /\ pair' = [pair EXCEPT ![MainThread] = 1]
    /\ sleeps' = [sleeps EXCEPT ![MainThread] = <<>>]
    /\ wresp' = [wresp EXCEPT ![MainThread] = NoRequest]
    /\ pc' = "price"
    /\ UNCHANGED <<df, dates, group, ri, has_fiat_deduction, daily_snapshots,
                   taxable_events, price_requests, days, report, cache,
                   unsaved_changes, store, lock, saves, last_set>>
    /\ UNCHANGED batchVars
    /\ UNCHANGED first_run
    /\ UNCHANGED appVars

\* get_price_in_eur is over: the card buy row adds Decimal(change) *
\* Decimal(price), or the exception leaves _process_group
ReturnPrice ==
    /\ pc = "price"
    /\ wpc[MainThread] = "idle"
    /\ wret[MainThread] # NotReturned
    /\ LET row == group[ri]
           out == wret[MainThread]
       IN  /\ price_requests' =
                 Append(price_requests,
                        [coin |-> row.Coin, timestamp |-> Head(dates),
                         price |-> out.value, raised |-> out = Raised])
           /\ IF out = Raised
              THEN /\ pc' = "error"
                   /\ UNCHANGED <<net_invested_eur, ri>>
              ELSE /\ net_invested_eur' = net_invested_eur + row.Change * out.value
                   /\ ri' = ri + 1
                   /\ pc' = IF ri = Len(group) THEN "snapshot" ELSE "row"
    /\ wret' = [wret EXCEPT ![MainThread] = NotReturned]
    /\ UNCHANGED <<df, dates, group, has_fiat_deduction, holdings,
                   daily_snapshots, taxable_events, days, report, cache,
                   unsaved_changes, store, lock, wpc, wcoin, wts, wcached,
                   wprice, wcalls, saves, last_set>>
    /\ UNCHANGED retryVars
    /\ UNCHANGED batchVars
    /\ UNCHANGED first_run
    /\ UNCHANGED appVars

-----------------------------------------------------------------------------
(* WalletAnalyzer: valuation of the daily holdings *)

\* midnight of the day of a timestamp: the model's time line runs across the
\* midnight that starts a calendar year
DayStart(t) ==
    LET new_year == (TicksPerYear * MINUTE_MS) \div 2
    IN  new_year + ((t - new_year) \div DAY_MS) * DAY_MS

\* the index of df_res.resample('D'): every day from the first snapshot's
\* to the last one's
ResampleDays(snaps) ==
    LET first == DayStart(snaps[1].date)
        last == DayStart(snaps[Len(snaps)].date)
    IN  [i \in 1..((last - first) \div DAY_MS + 1) |-> first + (i - 1) * DAY_MS]

\* .last().ffill(): the holdings of the last snapshot taken up to the end of a day
HoldingsOfDay(snaps, day) ==
    LET upto == {i \in 1..Len(snaps) : DayStart(snaps[i].date) <= day}
        i == CHOOSE j \in upto : \A k \in upto : k <= j
    IN  snaps[i].holdings

\* [c for c, q in holdings.items() if q > Decimal("0.000001")]
ActiveCoins(h) == {c \in DOMAIN h : h[c] > 0}

RECURSIVE get_batch_prices(_, _, _)
\* BinancePriceClient.get_batch_prices: the states of the cache the calls of
\* the workers can leave; what a worker raises is swallowed
get_batch_prices(states, coins, timestamp) ==
    IF coins = {} THEN states
    ELSE LET coin == CHOOSE c \in coins : TRUE
         IN  get_batch_prices(
                 UNION {{[cache |-> o.cache, unsaved |-> o.unsaved, store |-> o.store] :
                            o \in get_price_in_eur(st.cache, st.unsaved, st.store,
                                                   coin, timestamp)} :
                        st \in states},
                 coins \ {coin}, timestamp)

\* step_c_visualize up to the resampling of the snapshots; set_index('date')
\* raises on an empty list of snapshots
StartValuation ==
    /\ pc = "step_c"
    /\ IF daily_snapshots = <<>>
       THEN pc' = "error" /\ days' = days
       ELSE pc' = "value" /\ days' = ResampleDays(daily_snapshots)
    /\ UNCHANGED <<df, dates, group, ri, has_fiat_deduction, holdings,
                   net_invested_eur, daily_snapshots, taxable_events,
                   price_requests, report, cache, unsaved_changes, store>>
    /\ UNCHANGED workerVars
    /\ UNCHANGED first_run
    /\ UNCHANGED appVars

\* one iteration of "for date in dates" in step_c_visualize
ValueDay ==
    /\ pc = "value"
    /\ LET date == Head(days)
           active_coins == ActiveCoins(HoldingsOfDay(daily_snapshots, date))
       IN  \E o \in get_batch_prices(
                       {[cache |-> cache, unsaved |-> unsaved_changes,
                         store |-> store]}, active_coins, date) :
               /\ cache' = o.cache
               /\ unsaved_changes' = o.unsaved
               /\ store' = o.store
    /\ days' = Tail(days)
    /\ pc' = IF Tail(days) = <<>> THEN "step_d" ELSE "value"
    /\ UNCHANGED <<df, dates, group, ri, has_fiat_deduction, holdings,
                   net_invested_eur, daily_snapshots, taxable_events,
                   price_requests, report>>
    /\ UNCHANGED workerVars
    /\ UNCHANGED first_run
    /\ UNCHANGED appVars

-----------------------------------------------------------------------------
(* The fiscal report *)

RECURSIVE SumChange(_)
SumChange(s) ==
    IF s = <<>> THEN 0 ELSE Head(s).Change + SumChange(Tail(s))

Abs(x) == IF x < 0 THEN 0 - x ELSE x

\* df['UTC_Time'].dt.year.unique()
YearsOf(s) == {YearOf(s[i].UTC_Time) : i \in 1..Len(s)}

\* df[df['UTC_Time'].dt.year == year]
RowsOfYear(s, year) == SelectSeq(s, LAMBDA r : YearOf(r.UTC_Time) = year)

\* variant: the sign of the amount is not looked at
ReportBranchAnySign(row) ==
    IF InFiat(row.Coin)
    THEN IF row.Mapped_Op = "deposit" THEN "deposit"
         ELSE IF row.Mapped_Op \in {"withdraw", "withdraw_fiat"} THEN "withdrawal"
         ELSE IF row.Mapped_Op = "sell_fiat" THEN "sell_fiat"
         ELSE "none"
    ELSE "none"

\* step_d_report: the branch of the if / elif chain a row takes
ReportBranch(row) ==
    IF InFiat(row.Coin)
    THEN IF row.Mapped_Op = "deposit" /\ row.Change > 0 THEN "deposit"
         ELSE IF row.Mapped_Op \in {"withdraw", "withdraw_fiat"} /\ row.Change < 0
              THEN "withdrawal"
         ELSE IF row.Mapped_Op = "sell_fiat" /\ row.Change > 0 THEN "sell_fiat"
         ELSE "none"
    ELSE "none"

\* step_d_report: the figures printed for each year
step_d_report(s) ==
    [year \in YearsOf(s) |->
        LET df_year == RowsOfYear(s, year)
            of(b) == SelectSeq(df_year, LAMBDA r : ReportBranch(r) = b)
        IN  [deposits |-> SumChange(of("deposit")),
             withdrawals |-> Abs(SumChange(of("withdrawal"))),
             taxable_volume |-> SumChange(of("sell_fiat")),
             sell_transactions |-> of("sell_fiat")]]

\* variant: every row of kind sell_fiat counts, whatever its coin
FiscalBranchAnyCoin(row) ==
    IF row.Mapped_Op = "sell_fiat" /\ row.Change > 0 THEN "sell_fiat" ELSE "none"

\* collect_fiscal_data: the branch of the if / elif chain a row takes
FiscalBranch(row) ==
    IF row.Coin \in {"EUR", "USD", "GBP", "CHF", "JPY", "CAD", "AUD", "NZD", "SGD"}
    THEN IF row.Mapped_Op = "deposit" /\ row.Change > 0 THEN "deposit"
         ELSE IF row.Mapped_Op \in {"withdraw", "withdraw_fiat"} /\ row.Change < 0
              THEN "withdrawal"
         ELSE IF row.Mapped_Op = "sell_fiat" /\ row.Change > 0 THEN "sell_fiat"
         ELSE "none"
    ELSE "none"

\* collect_fiscal_data: fiscal_data[str(year)]
collect_fiscal_data(s) ==
    [year \in YearsOf(s) |->
        LET df_year == RowsOfYear(s, year)
            of(b) == SelectSeq(df_year, LAMBDA r : FiscalBranch(r) = b)
        IN  [deposits |-> SumChange(of("deposit")),
             withdrawals |-> Abs(SumChange(of("withdrawal"))),
             taxable_volume |-> SumChange(of("sell_fiat")),
             sell_transactions |-> of("sell_fiat")]]

NoReport == [kind |-> "none", years |-> <<>>]

\* WalletAnalyzer.run: self.step_d_report()
StepDReport ==
    /\ pc = "step_d"
    /\ report' = [kind |-> "console", years |-> step_d_report(df)]
    /\ pc' = "done"
    /\ UNCHANGED <<df, dates, group, ri, has_fiat_deduction, holdings,
                   net_invested_eur, daily_snapshots, taxable_events,
                   price_requests, days, cache, unsaved_changes, store>>
    /\ UNCHANGED workerVars
    /\ UNCHANGED first_run
    /\ UNCHANGED appVars

\* run_analysis: fiscal_data = collect_fiscal_data(analyzer)
CollectFiscalData ==
    /\ pc = "step_d"
    /\ report' = [kind |-> "web", years |-> collect_fiscal_data(df)]
    /\ pc' = "done"
    /\ UNCHANGED <<df, dates, group, ri, has_fiat_deduction, holdings,
                   net_invested_eur, daily_snapshots, taxable_events,
                   price_requests, days, cache, unsaved_changes, store>>
    /\ UNCHANGED workerVars
    /\ UNCHANGED first_run
    /\ UNCHANGED appVars

-----------------------------------------------------------------------------
(* app.py: every POST /upload starts a thread on run_analysis, all threads   *)
(* write the one record current_analysis that GET /status returns. The      *)
(* result of an analysis is named by its upload; 'message' is never written  *)

Uploads == 1..MaxUploads

\* current_analysis as the module defines it
IdleRecord == [status |-> "idle", progress |-> 0, results |-> None, error |-> None]

AppIdle ==
    /\ current_analysis = IdleRecord
    /\ apc = [u \in Uploads |-> "none"]
    /\ status_by = 0

AppStep(u, from, to) ==
    /\ apc[u] = from
    /\ apc' = [apc EXCEPT ![u] = to]
    /\ UNCHANGED ledgerVars
    /\ UNCHANGED <<cache, unsaved_changes, store>>
    /\ UNCHANGED workerVars

\* upload_file: the file is saved and the thread started
upload_file(u) ==
    /\ AppStep(u, "none", "l47")
    /\ UNCHANGED <<current_analysis, status_by>>

\* current_analysis['status'] = 'running'
SetRunning(u) ==
    /\ AppStep(u, "l47", "l48")
    /\ current_analysis' = [current_analysis EXCEPT !.status = "running"]
    /\ status_by' = u

\* current_analysis['progress'] = 0
ResetProgress(u) ==
    /\ AppStep(u, "l48", "l49")
    /\ current_analysis' = [current_analysis EXCEPT !.progress = 0]
    /\ status_by' = status_by

\* current_analysis['error'] = None
ResetError(u) ==
    /\ AppStep(u, "l49", "steps")
    /\ current_analysis' = [current_analysis EXCEPT !.error = None]
    /\ status_by' = status_by

\* the analyzer is built, its steps run and the data collected, or one of
\* them raises
RunSteps(u) ==
    /\ \E to \in {"l94", "l108"} : AppStep(u, "steps", to)
    /\ UNCHANGED <<current_analysis, status_by>>

\* current_analysis['results'] = {...}
SetResults(u) ==
    /\ AppStep(u, "l94", "l103")
    /\ current_analysis' = [current_analysis EXCEPT !.results = Some(u)]
    /\ status_by' = status_by

\* current_analysis['status'] = 'completed'
SetCompleted(u) ==
    /\ AppStep(u, "l103", "l104")
    /\ current_analysis' = [current_analysis EXCEPT !.status = "completed"]
    /\ status_by' = u

\* current_analysis['progress'] = 100
SetProgressDone(u) ==
    /\ AppStep(u, "l104", "end")
    /\ current_analysis' = [current_analysis EXCEPT !.progress = 100]
    /\ status_by' = status_by

\* except Exception: current_analysis['status'] = 'error'
SetErrorStatus(u) ==
    /\ AppStep(u, "l108", "l109")
    /\ current_analysis' = [current_analysis EXCEPT !.status = "error"]
    /\ status_by' = u

\* current_analysis['error'] = str(e)
SetErrorText(u) ==
    /\ AppStep(u, "l109", "end")
    /\ current_analysis' = [current_analysis EXCEPT !.error = Some(u)]
    /\ status_by' = status_by

-----------------------------------------------------------------------------
(* The run of one analysis on one CSV file *)

Init ==
    /\ df \in {step_a_load_and_clean(raw) : raw \in RawStreams}
    /\ pc = "step_b"
    /\ dates = UniqueTimes(df)
    /\ group = <<>>
    /\ ri = 1
    /\ has_fiat_deduction = FALSE
    /\ holdings = [c \in {} |-> 0]
    /\ net_invested_eur = 0
    /\ daily_snapshots = <<>>
    /\ taxable_events = <<>>
    /\ price_requests = <<>>
    /\ days = <<>>
    /\ report = NoReport
    /\ first_run = <<>>
    /\ AppIdle
    /\ store = StoreMissing
    /\ cache = _load_cache(store)
    /\ unsaved_changes = 0
    /\ WorkersIdle
    /\ NoBatch
    /\ last_set = cache

Next ==
    \/ BeginGroup
    \/ ProcessRow
    \/ AppendSnapshot
    \/ SaveAfterFlows
    \/ StartValuation
    \/ ValueDay
    \/ StepDReport
    \/ CollectFiscalData

Spec == Init /\ [][Next]_vars

-----------------------------------------------------------------------------
(* Two analyzers, one after the other, on the same CSV file *)

\* step_b_process_flows of the first analyzer is over; a new WalletAnalyzer
\* (new holdings, new PriceCache read from the file) starts on the same rows
Rerun ==
    /\ pc = "step_c"
    /\ first_run = <<>>
    /\ first_run' = <<[holdings |-> holdings,
                       net_invested |-> net_invested_eur,
                       price_requests |-> price_requests]>>
    /\ pc' = "step_b"
    /\ dates' = UniqueTimes(df)
    /\ group' = <<>>
    /\ ri' = 1
    /\ has_fiat_deduction' = FALSE
    /\ holdings' = [c \in {} |-> 0]
    /\ net_invested_eur' = 0
    /\ daily_snapshots' = <<>>
    /\ taxable_events' = <<>>
    /\ price_requests' = <<>>
    /\ cache' = _load_cache(store)
    /\ unsaved_changes' = 0
    /\ last_set' = cache'
    /\ UNCHANGED <<df, days, report, store, lock, wpc, wcoin, wts, wcached,
                   wprice, wret, wcalls, saves>>
    /\ UNCHANGED retryVars
    /\ UNCHANGED batchVars
    /\ UNCHANGED appVars

NextTwice ==
    \/ BeginGroup
    \/ ProcessRow
    \/ AppendSnapshot
    \/ SaveAfterFlows
    \/ Rerun

SpecTwice == Init /\ [][NextTwice]_vars

-----------------------------------------------------------------------------
(* One PriceCache shared by worker threads *)

\* a file an earlier run saved
SavedStores == {StoreOf([k \in {CacheKey("BTC", 0)} |-> 300])}

InitCache ==
    /\ df = <<>>
    /\ pc = "idle"
    /\ dates = <<>>
    /\ group = <<>>
    /\ ri = 1
    /\ has_fiat_deduction = FALSE
    /\ holdings = [c \in {} |-> 0]
    /\ net_invested_eur = 0
    /\ daily_snapshots = <<>>
    /\ taxable_events = <<>>
    /\ price_requests = <<>>
    /\ days = <<>>
    /\ report = NoReport
    /\ first_run = <<>>
    /\ AppIdle
    /\ store \in {StoreMissing, StoreCorrupt} \cup SavedStores
    /\ cache = _load_cache(store)
    /\ unsaved_changes = 0
    /\ WorkersIdle
    /\ NoBatch
    /\ last_set = cache

NextCache ==
    \/ \E w \in Workers : StartCall(w)
    \/ \E w \in Workers : Acquire(w)
    \/ \E w \in Workers : GetPrice(w)
    \/ \E w \in Workers : FetchPrice(w)
    \/ \E w \in Workers : SetPrice(w)
    \/ SaveAcquire
    \/ Save

SpecCache == InitCache /\ [][NextCache]_vars

-----------------------------------------------------------------------------
(* The same threads on a cache that holds 50 prices not yet written to the   *)
(* file, the next set_price flushes; each worker has one call left to make   *)

\* the prices of 50 earlier minutes of another coin
FiftyPrices == [k \in {CacheKey("ETH", n * MINUTE_MS) : n \in 1..FLUSH_THRESHOLD} |-> 200]

InitLock ==
    /\ df = <<>>
    /\ pc = "idle"
    /\ dates = <<>>
    /\ group = <<>>
    /\ ri = 1
    /\ has_fiat_deduction = FALSE
    /\ holdings = [c \in {} |-> 0]
    /\ net_invested_eur = 0
    /\ daily_snapshots = <<>>
    /\ taxable_events = <<>>
    /\ price_requests = <<>>
    /\ days = <<>>
    /\ report = NoReport
    /\ first_run = <<>>
    /\ AppIdle
    /\ store = StoreMissing
    /\ cache = FiftyPrices
    /\ unsaved_changes = FLUSH_THRESHOLD
    /\ IdleAfter(MaxCalls - 1)
    /\ NoBatch
    /\ last_set = cache

SpecLock == InitLock /\ [][NextCache]_vars

\* the threads run and every request is answered or times out
FairLock == SpecLock /\ WF_vars(NextCache)

-----------------------------------------------------------------------------
(* The web application: uploads one after the other or overlapping *)

InitApp == InitCache /\ store = StoreMissing

NextApp ==
    \/ \E u \in Uploads : upload_file(u)
    \/ \E u \in Uploads : SetRunning(u)
    \/ \E u \in Uploads : ResetProgress(u)
    \/ \E u \in Uploads : ResetError(u)
    \/ \E u \in Uploads : RunSteps(u)
    \/ \E u \in Uploads : SetResults(u)
    \/ \E u \in Uploads : SetCompleted(u)
    \/ \E u \in Uploads : SetProgressDone(u)
    \/ \E u \in Uploads : SetErrorStatus(u)
    \/ \E u \in Uploads : SetErrorText(u)

SpecApp == InitApp /\ [][NextApp]_vars

-----------------------------------------------------------------------------
(* step_b_process_flows with the price client run request by request *)

NextFetch ==
    \/ BeginGroup
    \/ PlainRow
    \/ CallPrice
    \/ Acquire(MainThread)
    \/ GetPrice(MainThread)
    \/ Request(MainThread)
    \/ RateRequest(MainThread)
    \/ Sleep(MainThread)
    \/ GiveUp(MainThread)
    \/ SetPrice(MainThread)
    \/ ReturnPrice
    \/ AppendSnapshot
    \/ SaveAfterFlows

SpecFetch == Init /\ [][NextFetch]_vars

-----------------------------------------------------------------------------
(* One call of get_batch_prices, its calls run by the threads of the pool *)

BatchCoins == {"EUR", "BTC", "USDT"}

\* the lists of active coins step_c_visualize passes: keys of a dict, each
\* coin once
CoinLists(coins, n) ==
    {l \in UNION {[1..k -> coins] : k \in 1..n} :
        \A i, j \in 1..Len(l) : i # j => l[i] # l[j]}

\* the state of one analyzer when get_batch_prices is entered
InBatch(lists, times) ==
    /\ df = <<>>
    /\ pc = "as_completed"
    /\ dates = <<>>
    /\ group = <<>>
    /\ ri = 1
    /\ has_fiat_deduction = FALSE
    /\ holdings = [c \in {} |-> 0]
    /\ net_invested_eur = 0
    /\ daily_snapshots = <<>>
    /\ taxable_events = <<>>
    /\ price_requests = <<>>
    /\ days = <<>>
    /\ report = NoReport
    /\ first_run = <<>>
    /\ AppIdle
    /\ store = StoreMissing
    /\ cache = _load_cache(store)
    /\ unsaved_changes = 0
    /\ WorkersIdle
    /\ batch \in lists
    /\ batch_ts \in times
    /\ futures = SubmitAll(batch)
    /\ results = [c \in {} |-> 0]
    /\ last_set = cache

InitBatch == InBatch(CoinLists(BatchCoins, MaxBatch), Times)

NextBatch ==
    \/ \E w \in Workers : RunTask(w)
    \/ \E w \in Workers : Acquire(w)
    \/ \E w \in Workers : GetPrice(w)
    \/ \E w \in Workers : FetchPrice(w)
    \/ \E w \in Workers : SetPrice(w)
    \/ \E w \in Workers : FinishTask(w)
    \/ Collect
    \/ ReturnBatch

SpecBatch == InitBatch /\ [][NextBatch]_vars

-----------------------------------------------------------------------------
(* One call of get_batch_prices, the calls of its threads run request by     *)
(* request                                                                   *)

InitBatchFetch == InBatch(CoinLists(BatchCoins, MaxFetchBatch), {0})

NextBatchFetch ==
    \/ \E w \in Workers : RunTask(w)
    \/ \E w \in Workers : Acquire(w)
    \/ \E w \in Workers : GetPrice(w)
    \/ \E w \in Workers : Request(w)
    \/ \E w \in Workers : RateRequest(w)
    \/ \E w \in Workers : Sleep(w)
    \/ \E w \in Workers : GiveUp(w)
    \/ \E w \in Workers : SetPrice(w)
    \/ \E w \in Workers : FinishTask(w)
    \/ Collect
    \/ ReturnBatch

SpecBatchFetch == InitBatchFetch /\ [][NextBatchFetch]_vars

\* the threads run, every request is answered or times out, every sleep ends
FairBatchFetch == SpecBatchFetch /\ WF_vars(NextBatchFetch)

-----------------------------------------------------------------------------
(* One call of get_batch_prices on more coins than the pool has threads *)

PoolCoins == <<"BTC", "ETH", "BNB", "SOL", "ADA", "XRP", "DOT", "LTC", "LINK",
               "DOGE", "AVAX", "ATOM", "UNI">>

InitPool == InBatch({SubSeq(PoolCoins, 1, n) : n \in 1..MaxPoolCoins}, {0})

NextPool ==
    \/ StartTask
    \/ EndTask
    \/ Collect
    \/ ReturnBatch

SpecPool == InitPool /\ [][NextPool]_vars

-----------------------------------------------------------------------------
(* One client thread filling the cache minute after minute: the remote API   *)
(* answers every request with the bar of the EUR pair, the caller stops at   *)
(* the first exception                                                       *)

\* price = self.price_client.get_price_in_eur("BTC", t) for the next minute
PriceCall ==
    /\ pc = "idle"
    /\ wcalls[MainThread] < MaxWrites
    /\ LET t == wcalls[MainThread] * MINUTE_MS
       IN  \E o \in get_price_in_eur(cache, unsaved_changes, store, "BTC", t) :
              /\ o.cache # cache
              /\ o.ret = KlineClose("BTC", "EUR", TsMinute(t))
              /\ cache' = o.cache
              /\ unsaved_changes' = o.unsaved
              /\ store' = o.store
              /\ wret' = [wret EXCEPT ![MainThread] =
                              IF o.raised THEN Raised ELSE Returned(o.ret)]
              /\ pc' = IF o.raised THEN "error" ELSE "idle"
              /\ wcoin' = [wcoin EXCEPT ![MainThread] = "BTC"]
              /\ wts' = [wts EXCEPT ![MainThread] = t]
              /\ last_set' = o.cache
    /\ wcalls' = [wcalls EXCEPT ![MainThread] = @ + 1]
    /\ UNCHANGED <<df, dates, group, ri, has_fiat_deduction, holdings,
                   net_invested_eur, daily_snapshots, taxable_events,
                   price_requests, days, report>>
    /\ UNCHANGED <<lock, wpc, wcached, wprice, saves>>
    /\ UNCHANGED retryVars
    /\ UNCHANGED batchVars
    /\ UNCHANGED first_run
    /\ UNCHANGED appVars

\* self.price_cache.save() called by the same thread
SaveCall ==
    /\ pc = "idle"
    /\ saves < MaxSaves
    /\ \E o \in _save_cache(cache, unsaved_changes, store) :
          /\ cache' = o.cache
          /\ unsaved_changes' = o.unsaved
          /\ store' = o.store
          /\ pc' = IF o.raised THEN "error" ELSE "idle"
    /\ saves' = saves + 1
    /\ UNCHANGED <<df, dates, group, ri, has_fiat_deduction, holdings,
                   net_invested_eur, daily_snapshots, taxable_events,
                   price_requests, days, report>>
    /\ UNCHANGED <<lock, wpc, wcoin, wts, wcached, wprice, wret, wcalls,
                   last_set>>
    /\ UNCHANGED retryVars
    /\ UNCHANGED batchVars
    /\ UNCHANGED first_run
    /\ UNCHANGED appVars

InitFlush ==
    /\ InitCache
    /\ store \in {StoreMissing, StoreCorrupt}

NextFlush ==
    \/ PriceCall
    \/ SaveCall

SpecFlush == InitFlush /\ [][NextFlush]_vars

-----------------------------------------------------------------------------
(* Properties of the ledger *)

Fiat == {"EUR", "USD", "GBP", "CHF", "JPY", "CAD", "AUD", "NZD", "SGD"}

FlowsDone == pc \in {"step_c", "value", "step_d", "done"}

RowsOf(s) == {s[i] : i \in 1..Len(s)}

RECURSIVE Total(_)
\* sum of the Change of the rows of s
Total(s) == IF s = <<>> THEN 0 ELSE s[Len(s)].Change + Total(SubSeq(s, 1, Len(s) - 1))

\* sum of the Change of the rows of s that satisfy keep
SumOver(s, keep(_)) == Total(SelectSeq(s, keep))

Balance(h, coin) == IF coin \in DOMAIN h THEN h[coin] ELSE 0

NoZero(h) == \A c \in DOMAIN h : h[c] # 0

\* C1: after every row, and in every snapshot, no asset of the holdings has
\* quantity zero
C1_NoZeroHolding ==
    /\ NoZero(holdings)
    /\ \A i \in 1..Len(daily_snapshots) : NoZero(daily_snapshots[i].holdings)

\* a coin was held after the first group and is gone after the second
C1_Witness ==
    /\ Len(daily_snapshots) = 2
    /\ \E c \in DOMAIN daily_snapshots[1].holdings :
          /\ c \notin DOMAIN daily_snapshots[2].holdings
          /\ c \notin DOMAIN holdings

\* C2: after step_b_process_flows the holdings of every asset are the sum of
\* the signed quantities of its rows, an absent asset counting as zero
C2_HoldingsAreSums ==
    FlowsDone =>
        \A c \in Coins :
            Balance(holdings, c) = SumOver(df, LAMBDA r : r.Coin = c)

\* two rows of unknown kind left a negative balance
C2_Witness ==
    /\ pc = "done"
    /\ "BTC" \in DOMAIN holdings
    /\ holdings["BTC"] = 0 - 2
    /\ \A r \in RowsOf(df) : r.Mapped_Op = "unknown"

\* the rows that may change the net invested amount
C3_MayChange(row, g) ==
    \/ row.Coin \in Fiat /\ row.Mapped_Op \in {"deposit", "withdraw_fiat", "sell_fiat"}
    \/ /\ row.Mapped_Op = "buy_fiat"
       /\ row.Coin \notin Fiat
       /\ ~ \E r \in RowsOf(g) : r.Coin \in Fiat /\ r.Change < 0

\* C3: the net invested amount changes only on a fiat row of kind deposit,
\* withdraw_fiat or sell_fiat, or on a buy_fiat row on a non-fiat asset in a
\* group without fiat deduction
C3_NetInvestedFrame ==
    [][ net_invested_eur' # net_invested_eur
            => pc = "row" /\ C3_MayChange(group[ri], group) ]_vars

\* a stablecoin row of kind convert was applied to a non-zero net invested
C3_Witness ==
    /\ pc = "snapshot"
    /\ Len(group) = 2
    /\ group[1].Mapped_Op = "deposit"
    /\ group[2].Mapped_Op = "convert"
    /\ group[2].Coin = "USDT"
    /\ group[2].Change = 1
    /\ net_invested_eur = 1
    /\ "USDT" \in DOMAIN holdings

IsSellFiat(r) == r.Mapped_Op = "sell_fiat" /\ r.Coin \in Fiat

RECURSIVE VolumeOver(_, _)
\* sum of the taxable volumes a report gives for a set of years
VolumeOver(years, ys) ==
    IF ys = {} THEN 0
    ELSE LET y == CHOOSE x \in ys : TRUE
         IN  years[y].taxable_volume + VolumeOver(years, ys \ {y})

\* C5 as stated: every sell_fiat row on a fiat asset took the taxable branch
\* of the engine, and what these rows took off the net invested amount
\* equals the taxable volume reported over all the years
C5_ReductionIsVolume ==
    pc = "done" =>
        /\ taxable_events = SelectSeq(df, IsSellFiat)
        /\ Total(taxable_events) = VolumeOver(report.years, DOMAIN report.years)

\* C6: a buy_fiat row on a non-fiat asset asks the price client for the price
\* of the asset at the timestamp of the group and adds quantity times price
\* exactly when no row of the group takes fiat away; otherwise it asks for
\* no price and leaves the net invested amount unchanged
C6_CardBuy ==
    [][ (pc = "row" /\ group[ri].Mapped_Op = "buy_fiat" /\ group[ri].Coin \notin Fiat)
        => IF \E r \in RowsOf(group) : r.Coin \in Fiat /\ r.Change < 0
           THEN /\ net_invested_eur' = net_invested_eur
                /\ price_requests' = price_requests
           ELSE /\ Len(price_requests') = Len(price_requests) + 1
                /\ LET q == price_requests'[Len(price_requests')]
                       key == <<group[ri].Coin, TsMinute(Head(dates))>>
                   IN  /\ q.coin = group[ri].Coin
                       /\ q.timestamp = Head(dates)
                       /\ key \in DOMAIN cache => q.price = cache[key]
                       /\ ~q.raised =>
                             net_invested_eur' =
                                 net_invested_eur + group[ri].Change * q.price
      ]_vars

\* a card buy was valued at a price above zero
C6_Witness ==
    /\ pc = "snapshot"
    /\ Len(group) = 1
    /\ group[1].Mapped_Op = "buy_fiat"
    /\ group[1].Change = 1
    /\ Len(price_requests) = 1
    /\ price_requests[1].price > 0
    /\ net_invested_eur = price_requests[1].price

\* C7: every row that took the taxable branch of the engine, and every row
\* counted in a reported taxable volume, is on an asset of the fiat set
C7_OnlyFiatTaxable ==
    /\ \A e \in RowsOf(taxable_events) : e.Coin \in Fiat
    /\ pc = "done" =>
          \A y \in DOMAIN report.years :
              /\ \A t \in RowsOf(report.years[y].sell_transactions) : t.Coin \in Fiat
              /\ report.years[y].taxable_volume =
                    SumOver(report.years[y].sell_transactions,
                            LAMBDA t : t.Coin \in Fiat)

\* a sell_fiat row on a stablecoin was processed and reported beside one on EUR
C7_Witness ==
    /\ pc = "done"
    /\ Len(df) = 2
    /\ df[1].Mapped_Op = "sell_fiat" /\ df[1].Coin = "USDT" /\ df[1].Change = 1
    /\ df[2].Mapped_Op = "sell_fiat" /\ df[2].Coin = "EUR" /\ df[2].Change = 1
    /\ Len(taxable_events) = 1

\* C8 as stated: a group in which a row gives up a crypto asset and a row of
\* the same operation receives a fiat asset is counted as a taxable event,
\* by the engine and by the report
C8_DisposalsCounted ==
    pc = "done" =>
        \A i, j \in 1..Len(df) :
            (/\ df[i].UTC_Time = df[j].UTC_Time
             /\ df[i].Operation = df[j].Operation
             /\ df[i].Operation \in {"Sell Crypto For Fiat", "Binance Convert",
                                      "Transaction Sold"}
             /\ df[i].Coin \notin Fiat /\ df[i].Change < 0
             /\ df[j].Coin \in Fiat /\ df[j].Change > 0)
            => /\ df[j] \in RowsOf(taxable_events)
               /\ df[j] \in RowsOf(report.years[YearOf(df[j].UTC_Time)].sell_transactions)

-----------------------------------------------------------------------------
(* Properties of the shared price cache *)

\* the key a worker's call is about
AskedKey(w) == <<wcoin[w], TsMinute(wts[w])>>

\* what a get_price for the worker's key has to return: the price last
\* stored under the key, absent when nothing was stored under it
Expected(w) ==
    IF AskedKey(w) \in DOMAIN last_set THEN Some(last_set[AskedKey(w)])
    ELSE None

\* C9: every get_price(a, t) returns exactly the price of the last
\* set_price(a, t, p), whatever other threads did on other keys and whatever
\* flushes happened in between, and returns absent for a key nothing was
\* stored under
C9_RoundTrip ==
    [][\A w \in Workers :
          (wpc[w] = "get_locked" /\ wpc'[w] # "get_locked")
              => wcached'[w] = Expected(w)]_vars

\* a worker read back a price stored in this run under a key the loaded file
\* did not hold, after a flush and after a store under another key
C9_Witness ==
    \E w \in Workers :
        /\ wpc[w] = "idle"
        /\ wcoin[w] = "BTC"
        /\ AskedKey(w) = <<"BTC", MINUTE_MS>>
        /\ wcached[w] # None
        /\ wcached[w] = Expected(w)
        /\ saves = MaxSaves
        /\ Cardinality(DOMAIN cache) = 2

\* C10 as stated: no step replaces the price a key holds by a different one
C10_AppendOnly ==
    [][\A k \in DOMAIN cache : k \in DOMAIN cache' /\ cache'[k] = cache[k]]_vars

-----------------------------------------------------------------------------
(* Properties of the price client *)

\* C11 as stated: no call of get_price_in_eur ends with an exception,
\* whatever the remote requests and the cache operations do
C11_NeverFailsOutward == \A t \in Threads : wret[t] # Raised

\* the delays simple_backoff has slept when it is at attempt n
DelaysBefore(n) == [i \in 1..n |-> BASE_DELAY_MS * (2 ^ (i - 1))]

\* C12: a fetch makes at most 3 attempts and has slept 0.5 s, then 1 s,
\* between them and nothing after the last; when the last attempt ends in a
\* retryable error the call returns 0 and raises nothing; a call that
\* returned to _process_group without raising leaves the groups still to
\* process as they were and the engine at the next row or at the snapshot
C12_BackoffAndGoOn ==
    /\ [](\A t \in Threads :
            /\ attempt[t] \in 0..2
            /\ sleeps[t] = DelaysBefore(attempt[t])
            /\ wpc[t] = "exhausted" => sleeps[t] = <<500, 1000>>)
    /\ [][\A t \in Threads :
            (wpc[t] = "exhausted" /\ wpc'[t] # "exhausted")
                => /\ wret'[t] = Returned(0)
                   /\ sleeps'[t] = sleeps[t]]_vars
    /\ [][(pc = "price" /\ pc' # "price" /\ wret[MainThread].kind = "value")
            => /\ pc' = (IF ri = Len(group) THEN "snapshot" ELSE "row")
               /\ dates' = dates
               /\ ri' = ri + 1
               /\ net_invested_eur' =
                     net_invested_eur + group[ri].Change * wret[MainThread].value]_vars

\* three attempts of the card buy of the first group failed on their first
\* request, the call returned 0, and the second group was processed as well
C12_Witness ==
    /\ Len(daily_snapshots) = 2
    /\ Len(price_requests) = 1
    /\ price_requests[1].timestamp = daily_snapshots[1].date
    /\ price_requests[1].price = 0
    /\ ~price_requests[1].raised
    /\ attempt[MainThread] = 2
    /\ pair[MainThread] = 1
    /\ sleeps[MainThread] = <<500, 1000>>
    /\ wprice[MainThread] = None
    /\ pc = "step_c"

-----------------------------------------------------------------------------
(* Properties of get_batch_prices *)

CoinsOf(l) == {l[i] : i \in 1..Len(l)}

\* C13: the mapping get_batch_prices returns has exactly one entry per
\* requested coin, in whatever order the calls completed; a coin whose call
\* raised, or found no price, is mapped to 0, and every other coin to what
\* its own call returned
C13_BatchComplete ==
    pc = "returned" =>
        /\ DOMAIN results = CoinsOf(batch)
        /\ \A i \in 1..Len(batch) :
              /\ futures[i].result = Raised => results[batch[i]] = 0
              /\ futures[i].result.kind = "value"
                    => results[batch[i]] = futures[i].result.value
              /\ futures[i].result # NotReturned
              /\ (batch[i] # "EUR" /\ results[batch[i]] # 0)
                    => results[batch[i]] = cache[<<batch[i], TsMinute(batch_ts)>>]
              /\ batch[i] = "EUR" => results[batch[i]] = 1

\* three coins were asked for; the call of the second raised, those of the
\* first and of the third returned a price
C13_Witness ==
    /\ pc = "returned"
    /\ Len(batch) = 3
    /\ futures[2].result = Raised
    /\ results[batch[2]] = 0
    /\ results[batch[1]] > 0
    /\ results[batch[3]] > 0

\* C14: at no instant of a get_batch_prices call are more than 10 calls of
\* get_price_in_eur in flight, however many coins are asked for
C14_AtMostTenInFlight == Cardinality(InFlight(futures)) <= 10

\* eleven coins were asked for, ten calls are in flight and one is queued
C14_Witness ==
    /\ Len(batch) > 10
    /\ Cardinality(InFlight(futures)) = 10
    /\ \E i \in 1..Len(futures) : futures[i].state = "pending"

-----------------------------------------------------------------------------
(* Properties of the cache: mutex, flush, durable store *)

\* the threads inside a cache operation (get_price, set_price, save)
Inside ==
    {t \in Threads : wpc[t] \in {"get_locked", "set_locked"}}
        \cup (IF pc = "save_locked" THEN {MainThread} ELSE {})

\* C15: the mapping, the counter and the file are read and changed only by
\* the thread that holds the lock, the flush inside set_price included, and
\* at no instant are two threads inside a cache operation
C15_UnderTheLock ==
    /\ [](Cardinality(Inside) <= 1 /\ \A t \in Inside : lock = t)
    /\ [][(\/ cache' # cache
           \/ unsaved_changes' # unsaved_changes
           \/ store' # store
           \/ \E t \in Threads : wcached'[t] # None /\ wcached'[t] # wcached[t])
              => lock \in Inside]_vars

\* a worker stores a price while the other one and the main thread wait for
\* the lock
C15_Witness ==
    /\ wpc["w1"] = "set_locked"
    /\ wpc["w2"] \in {"get_wait", "set_wait"}
    /\ lock = "w1"
    /\ pc = "idle" /\ saves < MaxSaves

\* entries of the in-memory mapping the file does not hold
Lost == {k \in DOMAIN cache :
            k \notin DOMAIN _load_cache(store) \/ _load_cache(store)[k] # cache[k]}

C17_StoreFailureNotFatal ==
    [][(pc = "step_b" /\ dates = <<>>) => pc' = "step_c"]_vars

-----------------------------------------------------------------------------
(* Properties of the run as a whole *)

BothRunsOver == pc = "step_c" /\ first_run # <<>>

\* C18 as stated: two analyzers fed the same rows end with the same
\* holdings and the same net invested amount
C18_Original ==
    BothRunsOver =>
        /\ holdings = first_run[1].holdings
        /\ net_invested_eur = first_run[1].net_invested

\* C18 amended: two analyzers fed the same rows end with the same holdings;
\* they end with the same net invested amount when the price client gave
\* the same prices to the card buys of both, which is the case when there
\* is no card buy and when every price of the first run was obtained and
\* saved in the cache file
C18_Deterministic ==
    BothRunsOver =>
        /\ holdings = first_run[1].holdings
        /\ price_requests = first_run[1].price_requests
              => net_invested_eur = first_run[1].net_invested
        /\ (\A i \in 1..Len(first_run[1].price_requests) :
                first_run[1].price_requests[i].price # 0)
              => /\ price_requests = first_run[1].price_requests
                 /\ net_invested_eur = first_run[1].net_invested

\* both runs made a card buy at the same price, read back from the file by
\* the second one
C18_Witness ==
    /\ BothRunsOver
    /\ Len(price_requests) = 1
    /\ price_requests[1].price # 0
    /\ price_requests = first_run[1].price_requests
    /\ net_invested_eur = first_run[1].net_invested
    /\ net_invested_eur # 0

\* the rows of s in every order
Perms(s) ==
    {[i \in 1..Len(s) |-> s[f[i]]] :
        f \in {g \in [1..Len(s) -> 1..Len(s)] :
                  \A i, j \in 1..Len(s) : i # j => g[i] # g[j]}}

\* holdings and net invested amount before the group under way
BeforeGroup ==
    IF daily_snapshots = <<>>
    THEN [holdings |-> [c \in {} |-> 0], net_invested |-> 0]
    ELSE [holdings |-> daily_snapshots[Len(daily_snapshots)].holdings,
          net_invested |-> daily_snapshots[Len(daily_snapshots)].net_invested]

\* the prices get_price_in_eur returned for the group under way
GroupRequests ==
    {price_requests[i] : i \in {j \in 1..Len(price_requests) :
                                  price_requests[j].timestamp = Head(dates)}}

SamePrices == \A a, b \in GroupRequests : a.coin = b.coin => a.price = b.price

GroupPrices ==
    [c \in Coins |->
        IF \E a \in GroupRequests : a.coin = c
        THEN (CHOOSE a \in GroupRequests : a.coin = c).price
        ELSE 0]

\* C19: when a group has been processed, its rows taken in any other order,
\* with the same price for each coin, give the same holdings and the same
\* net invested amount
C19_OrderInsideGroup ==
    (pc = "snapshot" /\ SamePrices) =>
        \A rows \in Perms(group) :
            _process_group(rows, BeforeGroup.holdings, BeforeGroup.net_invested,
                           GroupPrices)
                = [holdings |-> holdings, net_invested |-> net_invested_eur]

\* a group of two different rows, one of them a card buy at a price above 0
C19_Witness ==
    /\ pc = "snapshot"
    /\ Len(group) = 2
    /\ group[1] # group[2]
    /\ SamePrices
    /\ \E a \in GroupRequests : a.price > 0
    /\ net_invested_eur # 0

\* C20: the snapshots are in strictly ascending order of date, one per group
\* processed and, when the flows are done, one per distinct timestamp of the
\* rows; a snapshot holds the balances of the rows up to its date and the
\* holdings and net invested amount of the moment it was appended; no later
\* step changes or removes it
C20_Snapshots ==
    /\ [](/\ \A i, j \in 1..Len(daily_snapshots) :
               i < j => daily_snapshots[i].date < daily_snapshots[j].date
          /\ Len(daily_snapshots) + Len(dates) = Cardinality({r.UTC_Time : r \in RowsOf(df)})
          /\ \A k \in 1..Len(daily_snapshots) :
               /\ \E r \in RowsOf(df) : r.UTC_Time = daily_snapshots[k].date
               /\ \A c \in Coins :
                     Balance(daily_snapshots[k].holdings, c) =
                         SumOver(df, LAMBDA r : /\ r.Coin = c
                                                /\ r.UTC_Time <= daily_snapshots[k].date)
          /\ FlowsDone => Len(dates) = 0)
    /\ [][/\ Len(daily_snapshots') >= Len(daily_snapshots)
          /\ \A i \in 1..Len(daily_snapshots) :
               daily_snapshots'[i] = daily_snapshots[i]
          /\ Len(daily_snapshots') > Len(daily_snapshots)
               => /\ Len(daily_snapshots') = Len(daily_snapshots) + 1
                  /\ pc = "snapshot"
                  /\ daily_snapshots'[Len(daily_snapshots')] =
                        [date |-> Head(dates), holdings |-> holdings,
                         net_invested |-> net_invested_eur]]_vars

\* two groups processed, the second changed the holdings and the net
\* invested amount, the first snapshot is as it was
C20_Witness ==
    /\ FlowsDone
    /\ Len(daily_snapshots) = 2
    /\ daily_snapshots[1].holdings # daily_snapshots[2].holdings
    /\ daily_snapshots[1].net_invested # daily_snapshots[2].net_invested
    /\ daily_snapshots[1].net_invested # 0

-----------------------------------------------------------------------------
(* Properties of get_price_in_eur and of one fetch *)

\* the asset of a thread's call and the minute its timestamp falls in
FlooredKey(t) == <<wcoin[t], (wts[t] \div 60000) * 60000>>

\* C21: a call that returns a fetched price has stored it in the cache under
\* the asset and the floored minute by the time it returns; no step removes
\* a key from the cache; and a call whose lookup finds the asset and the
\* floored minute in the cache returns the cached price at once, never going
\* to the remote requests
C21_WriteBackThenHit ==
    /\ [][\A t \in Workers :
            (wpc[t] # "idle" /\ wpc'[t] = "idle" /\ wprice'[t] # None
                /\ wret'[t].kind = "value")
                => /\ FlooredKey(t) \in DOMAIN cache'
                   /\ cache'[FlooredKey(t)] = wprice'[t][1]
                   /\ wret'[t].value = wprice'[t][1]]_vars
    /\ [][DOMAIN cache \subseteq DOMAIN cache']_vars
    /\ [][\A t \in Workers :
            (wpc[t] = "get_locked" /\ wpc'[t] # "get_locked"
                /\ FlooredKey(t) \in DOMAIN cache)
                => /\ wpc'[t] = "idle"
                   /\ wret'[t] = Returned(cache[FlooredKey(t)])]_vars
    /\ [](\A t \in Workers :
            wpc[t] \in {"fetch", "set_wait", "set_locked"} => wcached[t] = None)

\* the first worker fetched and stored the price of BTC for the first minute,
\* the second then asked for BTC half a minute later and got it from the
\* cache
C21_Witness ==
    /\ wts["w1"] = 0 /\ wcoin["w1"] = "BTC"
    /\ wprice["w1"] # None
    /\ wpc["w1"] = "idle" /\ wret["w1"].kind = "value"
    /\ wts["w2"] = 30000 /\ wcoin["w2"] = "BTC"
    /\ wpc["w2"] = "idle"
    /\ wcached["w2"] = wprice["w1"]
    /\ wprice["w2"] = None
    /\ wret["w2"] = Returned(wprice["w1"][1])
    /\ wcalls["w2"] = 1
    /\ <<"BTC", 0>> \in DOMAIN last_set

\* a thread gets the answer to a request for a pair, and to the rate request
PairAnswered(t) == wpc[t] = "fetch" /\ (wpc'[t] # "fetch" \/ pair'[t] # pair[t])
RateAnswered(t) == wpc[t] = "rate" /\ wpc'[t] # "rate"

\* the closes the remote API serves for a thread's call
DirectClose(t) == KlineClose(wcoin[t], "EUR", (wts[t] \div 60000) * 60000)
BridgeClose(t) == KlineClose(wcoin[t], "USDT", (wts[t] \div 60000) * 60000)

\* C22: in one attempt the direct pair is asked first and its bar gives the
\* price; the bridge pair is asked only after the direct pair gave no bar;
\* its bar is multiplied by the rate of the EURUSDT bar, or by 0.92 when the
\* rate request gives anything else; no bar of the bridge pair means no
\* price; a call for EUR returns 1 at once and makes no request
C22_FetchAttempt ==
    /\ [][\A t \in Workers :
            PairAnswered(t) =>
                /\ wresp'[t].url = (IF pair[t] = 1 THEN "direct" ELSE "bridge")
                /\ (pair[t] = 1 /\ wresp'[t].answer = "data")
                      => /\ wprice'[t] = Some(DirectClose(t))
                         /\ wpc'[t] = "set_wait"
                         /\ pair'[t] = 1
                /\ (pair[t] = 1 /\ pair'[t] = 2)
                      => wresp'[t].answer \in {"empty", "status"}
                /\ (pair[t] = 2 /\ wresp'[t].answer = "data") => wpc'[t] = "rate"
                /\ (pair[t] = 2 /\ wresp'[t].answer \in {"empty", "status"})
                      => /\ wprice'[t] = None
                         /\ wret'[t] = Returned(0)
                         /\ wpc'[t] = "idle"
                /\ wpc'[t] = "rate"
                      => pair[t] = 2 /\ wresp'[t].answer = "data"]_vars
    /\ [][\A t \in Workers :
            RateAnswered(t) =>
                /\ wresp'[t].url = "rate"
                /\ pair[t] = 2
                /\ wpc'[t] = "set_wait"
                /\ wprice'[t] =
                      Some((BridgeClose(t) * (IF wresp'[t].answer = "data"
                                              THEN 909 ELSE 920)) \div 1000)]_vars
    /\ [](\A t \in Workers :
            /\ wpc[t] = "rate" => wresp[t] = [url |-> "bridge", answer |-> "data"]
            /\ wpc[t] # "idle" => wcoin[t] # "EUR"
            /\ (wtask[t] # 0 /\ wcoin[t] = "EUR")
                  => wret[t] = Returned(1) /\ wresp[t] = NoRequest)

\* the batch asked for EUR and BTC: the call for EUR returned 1 without a
\* request, that for BTC found no bar of the direct pair, a bar of the bridge
\* pair and no answer to the rate request
C22_Witness ==
    /\ pc = "returned"
    /\ results = [c \in {"EUR", "BTC"} |-> IF c = "EUR" THEN 1 ELSE 303]
    /\ \E t \in Workers :
          /\ wcoin[t] = "BTC"
          /\ wresp[t] = [url |-> "rate", answer |-> "transport"]
          /\ wprice[t] = Some(303)

\* C23 as stated: whenever a request of a fetch, for the direct pair, for the
\* bridge pair or for the rate, is answered with the rate-limit status and
\* attempts remain, the thread goes to the backoff sleep
C23_RateLimitRetried ==
    [][\A t \in Workers :
          ((PairAnswered(t) \/ RateAnswered(t))
              /\ wresp'[t].answer = "limit" /\ attempt[t] < 2)
              => wpc'[t] = "sleep"]_vars

-----------------------------------------------------------------------------
(* Properties of the threads of a batch *)

\* the threads waiting for the network or sleeping between two attempts
Away == {t \in Workers : wpc[t] \in {"fetch", "rate", "sleep", "exhausted"}}

\* C24: a thread that waits for an answer or sleeps between attempts does not
\* hold the lock; the lock is held only inside get_price and set_price, so
\* that it is free whenever no thread is inside one of them; and a call takes
\* the lock for set_price only, once its price is computed
C24_NoLockWhileAway ==
    /\ [](/\ \A t \in Away : lock # t
          /\ lock # NoOwner => wpc[lock] \in {"get_locked", "set_locked"}
          /\ (\A t \in Workers : wpc[t] \notin {"get_locked", "set_locked"})
                => lock = NoOwner)
    /\ [][\A t \in Workers :
            (lock # t /\ lock' = t /\ wpc[t] = "set_wait")
                => wprice[t] # None /\ wpc'[t] = "set_locked"]_vars

\* a thread sleeps between two attempts while the other one, which came to
\* the cache later, stores its price under the lock
C24_Witness ==
    /\ wpc["w1"] = "sleep"
    /\ wpc["w2"] = "set_locked"
    /\ lock = "w2"
    /\ wtask["w1"] < wtask["w2"]

\* how far a submitted call has come
Rank(f) ==
    CASE f.state = "pending" -> 0
      [] f.state = "running" -> 1
      [] f.state = "done" -> 2
      [] f.state = "collected" -> 3

\* C25: when the threads run and every request is answered or times out,
\* get_batch_prices returns; every call that was started ends, with a price,
\* with 0 for a price that could not be had, or with an exception that
\* becomes 0 in the results; no call goes back or is dropped once submitted
C25_BatchCompletes ==
    /\ <>(pc = "returned")
    /\ [](pc = "returned" =>
            /\ \A i \in 1..Len(futures) :
                  /\ futures[i].state = "collected"
                  /\ futures[i].result.kind \in {"value", "raised"}
                  /\ futures[i].result.kind = "raised" => results[batch[i]] = 0
            /\ \A t \in Workers : wpc[t] = "idle" /\ wtask[t] = 0)
    /\ [][/\ Len(futures') = Len(futures)
          /\ \A i \in 1..Len(futures) :
                /\ Rank(futures'[i]) >= Rank(futures[i])
                /\ Rank(futures[i]) >= 2 => futures'[i].result = futures[i].result]_vars

\* a batch of two coins returned: the call of one coin ended with an
\* exception, that of the other gave up after three attempts
C25_Witness ==
    /\ pc = "returned"
    /\ Len(batch) = 2
    /\ \E i, j \in 1..2 :
          /\ futures[i].result = Raised
          /\ results[batch[i]] = 0
          /\ futures[j].result = Returned(0)
          /\ \E t \in Workers :
                /\ wcoin[t] = batch[j]
                /\ attempt[t] = 2
                /\ sleeps[t] = <<500, 1000>>

-----------------------------------------------------------------------------
(* Properties of the lock *)

\* every call the threads may make is over and the lock is free
AllOver ==
    /\ \A t \in Workers : wpc[t] = "idle" /\ wcalls[t] = MaxCalls
    /\ pc = "idle" /\ saves = MaxSaves
    /\ lock = NoOwner

\* C26: whatever the interleaving of the calls of the workers and of the
\* save of the main thread, a thread that waits for the lock gets it and a
\* thread that holds it lets it go, the flush of set_price and a flush that
\* raises included, so that every call the threads make comes to its end
C26_NoDeadlock ==
    /\ <>[]AllOver
    /\ \A t \in Workers :
          (wpc[t] \in {"get_wait", "set_wait"})
              ~> (wpc[t] \in {"get_locked", "set_locked"})
    /\ \A t \in Threads : (lock = t) ~> (lock # t)
    /\ [][\A t \in Workers :
            (wpc[t] = "set_locked" /\ wpc'[t] # "set_locked")
                => lock' = NoOwner]_vars

\* the store of a worker flushed and the write of the file failed, while the
\* other worker waited for the lock; the lock is free again
C26_Witness ==
    /\ wret["w1"] = Raised
    /\ wprice["w1"] # None
    /\ unsaved_changes > FLUSH_THRESHOLD
    /\ wpc["w2"] \in {"get_wait", "set_wait"}
    /\ lock = NoOwner

-----------------------------------------------------------------------------
(* Properties of the end of the run *)

\* C27 as stated: when the run is over, the counter of unsaved writes is 0
\* and the file holds every price of the in-memory cache
C27_AllSavedAtEnd ==
    pc = "done" => (unsaved_changes = 0 /\ Lost = {})

-----------------------------------------------------------------------------
(* Properties of the web application *)

\* C28 as stated: when the status is 'completed' the results are those of
\* the run that set it; when it is 'running' or 'error' no results of
\* another run than the one that set it are exposed; and the status only
\* goes to 'running', or from 'running' to 'completed' or 'error'
C28_OneAnalysis ==
    /\ [](/\ current_analysis.status = "completed"
                => current_analysis.results = Some(status_by)
          /\ current_analysis.status \in {"running", "error"}
                => current_analysis.results \in {None, Some(status_by)})
    /\ [][current_analysis'.status # current_analysis.status
            => \/ current_analysis'.status = "running"
               \/ current_analysis.status = "running"]_vars

=============================================================================
